---- MODULE Spec2Model ----
(***************************************************************************)
(* Model of erdtree's parallel traversal and tree assembly                 *)
(* (src/render/tree/mod.rs): Tree::try_init, Tree::traverse, the assembler *)
(* thread's receive loop, Tree::assemble_tree, Tree::prune_directories,    *)
(* Tree::filter_directories and Tree::is_stump.                            *)
(*                                                                         *)
(* A NodeId of the arena is identified with the entry it was created for   *)
(* (the code never looks at the numeric value of a NodeId), and a path is  *)
(* identified with the entry that carries it (paths are unique).           *)
(*                                                                         *)
(* The walker (the ignore crate and visitor.rs) is the environment: its    *)
(* threads send the entries of the walked tree in any order.  A field of   *)
(* the Context is drawn at the step that reads it and kept in ctx.         *)
(***************************************************************************)
EXTENDS Integers, Sequences, FiniteSets, TLC

\* ------------------------------------------------------------------ bounds
\* Largest number of entries (the root included) the walk can report.
MaxEntries == 4
\* Number of distinct file inodes; files that share one are hard links.
MaxInodes == 2
\* Number of walker threads (ctx.threads).
Threads == 2

Nodes == 1..MaxEntries
Walkers == 1..Threads

\* Option::None for a file size, and "no path" for the parent of "/".
NoSize == -1
NoPath == -1
\* The path of the directory that contains the root: never walked.
Outside == 0
\* The message TraversalState::Done (an Ongoing(node) message is the entry).
Done == 0

\* ------------------------------------------------------- the file system
\* An entry is [parent, is_dir, ino]: parent is the entry whose path is the
\* entry's parent path, ino the inode of a file (0 for a directory, whose
\* inode is its own).  Entries are numbered in breadth-first order, which
\* is also the order of their names.
RootEntry == [parent |-> Outside, is_dir |-> TRUE, ino |-> 0]
\* The walk of a root that is a file reports that file alone, at depth 0.
FileRootEntry == [parent |-> Outside, is_dir |-> FALSE, ino |-> 1]

MaxOf(S) == IF S = {} THEN 0 ELSE CHOOSE m \in S : \A x \in S : x <= m

NextEntries(f) ==
    IF Len(f) = 0 THEN {RootEntry, FileRootEntry}
    ELSE LET lastp  == f[Len(f)].parent
             dirs   == {p \in 1..Len(f) : f[p].is_dir /\ p >= lastp}
             used   == MaxOf({f[e].ino : e \in 1..Len(f)})
             inos   == 1..(IF used + 1 <= MaxInodes THEN used + 1 ELSE MaxInodes)
         IN  {[parent |-> p, is_dir |-> TRUE, ino |-> 0] : p \in dirs}
             \cup {[parent |-> p, is_dir |-> FALSE, ino |-> i] : p \in dirs, i \in inos}

RECURSIVE FileSystems(_)
FileSystems(k) ==
    IF k = 0 THEN {<< >>}
    ELSE LET prev == FileSystems(k - 1)
         IN  prev \cup UNION {{Append(f, r) : r \in NextEntries(f)} :
                              f \in {g \in prev : Len(g) = k - 1}}

VARIABLES
    fs,               \* the entries the walker will report
    pcMain,           \* position of the thread that runs try_init/traverse
    walker,           \* state of each walker thread
    unsent,           \* entries no walker thread has visited yet
    chan,             \* the mpsc channel: messages sent and not yet received
    doneSent,         \* number of TraversalState::Done values sent
    pcAsm,            \* position of the assembler thread
    arena,            \* tree: Arena<Node>, the nodes created by new_node
    removed,          \* arena nodes removed by remove_subtree
    kids,             \* the child edges of the arena, in sibling order
    size,             \* Node::file_size of every node
    branches,         \* branches: HashMap<PathBuf, Vec<NodeId>>
    root_id_id,       \* root_id_id: Option<NodeId> (0 is None)
    node_comparator,  \* the comparator built from ctx
    inodes,           \* inodes: HashSet<Inode>
    stack,            \* the activations of assemble_tree
    visited,          \* the nodes the loop of line 215 went through, in order
    ctx,              \* the Context fields read so far
    result,           \* what try_init returned
    channel,          \* TRUE once mpsc::channel() was called
    column_properties,\* column_properties: the ColumnProperties of try_init
    parent_first,     \* no entry was consumed before its parent directory
    value,            \* the f64 handed to a prefix conversion
    prefix_kind,      \* the conversion applied: "Bin", "Si" or "none"
    prefix            \* the prefix the conversion returned

vars == << fs, pcMain, walker, unsent, chan, doneSent, pcAsm, arena, removed,
           kids, size, branches, root_id_id, node_comparator, inodes, stack,
           visited, ctx, result, channel, column_properties, parent_first,
           value, prefix_kind, prefix >>

mainVars == << pcMain, result >>
walkVars == << walker, unsent >>
asmVars  == << pcAsm, arena, removed, kids, size, branches, root_id_id,
               node_comparator, inodes, stack, visited, ctx,
               column_properties, parent_first >>
unitVars == << value, prefix_kind, prefix >>

\* ------------------------------------------------------------ Node getters
Entries == 1..Len(fs)

\* Node::is_dir
IsDir(n) == fs[n].is_dir
\* Node::depth
RECURSIVE Depth(_)
Depth(n) ==
    IF fs[n].parent = Outside THEN 0
    ELSE IF fs[n].parent = NoPath THEN 1
    ELSE 1 + Depth(fs[n].parent)
\* Node::path
Path(n) == n
\* Node::parent_path: Path::parent of the entry's path
ParentPath(n) == fs[n].parent
\* Node::inode: device and inode number, and the link count
Ino(n) == IF IsDir(n) THEN MaxInodes + n ELSE fs[n].ino
Nlink(n) ==
    IF IsDir(n) THEN 2
    ELSE Cardinality({e \in Entries : ~IsDir(e) /\ fs[e].ino = fs[n].ino})
\* The size in bytes of the file behind an inode.
Bytes(i) == 4 * i
\* Node::blocks: the 512-byte blocks the entry occupies.
Blocks(n) == IF IsDir(n) THEN 8 ELSE 8 * fs[n].ino
\* utils::num_integral: the number of decimal digits of a positive integer.
RECURSIVE NumIntegral(_)
NumIntegral(x) == IF x < 10 THEN 1 ELSE 1 + NumIntegral(x \div 10)
\* FileSize::size_columns: the width of the byte count as it is displayed.
SizeColumns(bytes) == NumIntegral(bytes)
\* Node::file_size of a freshly built node: directories have none.
InitialSize(n) == IF IsDir(n) THEN NoSize ELSE Bytes(fs[n].ino)


\* --------------------------------------------------------------- the arena
\* A tree value: the child edges and the removed nodes of an Arena<Node>.
TreeOf(k, r) == [kids |-> k, removed |-> r]

\* NodeId::descendants: the node, then its subtree in pre-order.
RECURSIVE Concat(_)
Concat(ss) == IF ss = << >> THEN << >> ELSE Head(ss) \o Concat(Tail(ss))

RECURSIVE Descendants(_, _)
Descendants(n, k) ==
    << n >> \o Concat([j \in 1..Len(k[n]) |-> Descendants(k[n][j], k)])

Range(s) == {s[j] : j \in 1..Len(s)}

\* Node::parent of the arena: the node that has n among its children (0: none).
ParentOf(n, k) ==
    IF \E p \in DOMAIN k : n \in Range(k[p])
    THEN CHOOSE p \in DOMAIN k : n \in Range(k[p])
    ELSE 0

\* s without its occurrences of n.
Without(s, n) == SelectSeq(s, LAMBDA x : x # n)

\* NodeId::detach: unlink n from its parent and siblings; n keeps its children.
Detach(n, T) ==
    [T EXCEPT !.kids = [p \in DOMAIN T.kids |-> Without(T.kids[p], n)]]

\* NodeId::remove_subtree: unlink n and remove it and all its descendants.
RemoveSubtree(n, T) ==
    LET gone == Range(Descendants(n, T.kids))
        cut  == Detach(n, T)
    IN  [kids    |-> [p \in DOMAIN cut.kids |->
                         IF p \in gone THEN << >> ELSE cut.kids[p]],
         removed |-> cut.removed \cup gone]

\* NodeId::append: child becomes the last child of n.
AppendChild(n, child, k) == [k EXCEPT ![n] = Append(@, child)]

RECURSIVE AppendAll(_, _, _)
AppendAll(n, cs, k) ==
    IF cs = << >> THEN k
    ELSE AppendAll(n, Tail(cs), AppendChild(n, Head(cs), k))

\* ---------------------------------------------------------- the comparator
\* node::cmp::comparator(ctx): an Ordering (-1 Less, 0 Equal, 1 Greater) for
\* two nodes, by name or by size (a missing size counts as 0).
Sorts == {"name", "size"}

SizeOrZero(n, sz) == IF sz[n] = NoSize THEN 0 ELSE sz[n]

Ordering(x, y) == IF x < y THEN -1 ELSE IF x > y THEN 1 ELSE 0

Compare(cmp, a, b, sz) ==
    IF cmp = "name" THEN Ordering(a, b)
    ELSE Ordering(SizeOrZero(a, sz), SizeOrZero(b, sz))

\* Vec::sort_by with the comparator: a stable sort.
InsertSorted(x, s, cmp, sz) ==
    LET after == {j \in 1..Len(s) : Compare(cmp, s[j], x, sz) = 1}
        at    == IF after = {} THEN Len(s) + 1
                 ELSE CHOOSE j \in after : \A i \in after : j <= i
    IN  SubSeq(s, 1, at - 1) \o << x >> \o SubSeq(s, at, Len(s))

\* Variant of SortBy that leaves the children in the order of arrival.
Unsorted(s, cmp, sz) == s

RECURSIVE SortBy(_, _, _)
SortBy(s, cmp, sz) ==
    IF s = << >> THEN << >>
    ELSE InsertSorted(s[Len(s)], SortBy(SubSeq(s, 1, Len(s) - 1), cmp, sz), cmp, sz)


\* ------------------------------------------------- pruning and filtering
\* Variant of ToPrune without the is_dir check of line 290.
ToPruneAnyKind(root, T) ==
    SelectSeq(Tail(Descendants(root, T.kids)), LAMBDA n : Len(T.kids[n]) = 0)

\* prune_directories, lines 285-297: the childless directories below the root.
ToPrune(root, T) ==
    SelectSeq(Tail(Descendants(root, T.kids)),
              LAMBDA n : IsDir(n) /\ Len(T.kids[n]) = 0)

RECURSIVE RemoveAll(_, _)
RemoveAll(ns, T) ==
    IF ns = << >> THEN T ELSE RemoveAll(Tail(ns), RemoveSubtree(Head(ns), T))

\* Variant of PruneDirectories without the recursive call of line 307.
PruneOnce(root, T) == RemoveAll(ToPrune(root, T), T)

\* prune_directories: remove the childless directories, then start again.
RECURSIVE PruneDirectories(_, _)
PruneDirectories(root, T) ==
    LET to_prune == ToPrune(root, T)
    IN  IF to_prune = << >> THEN T
        ELSE PruneDirectories(root, RemoveAll(to_prune, T))

\* Variant of ToDetach that looks at the children of the root only.
ToDetachChildren(root, T) == SelectSeq(T.kids[root], LAMBDA n : ~IsDir(n))

\* filter_directories, lines 312-318: the non-directories below the root.
ToDetach(root, T) ==
    SelectSeq(Tail(Descendants(root, T.kids)), LAMBDA n : ~IsDir(n))

RECURSIVE DetachAll(_, _)
DetachAll(ns, T) ==
    IF ns = << >> THEN T ELSE DetachAll(Tail(ns), Detach(Head(ns), T))

\* filter_directories
FilterDirectories(root, T) == DetachAll(ToDetach(root, T), T)

\* Variant of IsStump without the skip(1) of line 97.
IsStumpNoSkip(root, T) == Descendants(root, T.kids) = << >>

\* is_stump: the root has no descendant but itself.
IsStump(root, T) == Tail(Descendants(root, T.kids)) = << >>

\* ------------------------------------------------------------ the branches
\* HashMap::remove
RemoveKey(b, key) == [p \in DOMAIN b \ {key} |-> b[p]]
\* HashMap::insert
InsertKey(b, key, v) == [p \in DOMAIN b \cup {key} |-> IF p = key THEN v ELSE b[p]]

\* Variant of EnsureOwnList that gives a directory no list of its own.
NoOwnList(b, n) == b

\* Lines 139-141: a directory gets a branch list for its own path.
EnsureOwnList(b, n) ==
    IF IsDir(n) /\ Path(n) \notin DOMAIN b THEN InsertKey(b, Path(n), << >>) ELSE b

\* Variant of IsRootEntry without the is_dir test of line 136.
IsDepthZero(n) == Depth(n) = 0

\* Lines 136 and 143: the entry that is recorded as the root.
IsRootEntry(n) == IsDir(n) /\ Depth(n) = 0

\* Lines 153-159: push the node on its parent's list; a parent without a list
\* gets an empty one.
PushToParent(b, parent, n) ==
    IF parent \in DOMAIN b
    THEN [b EXCEPT ![parent] = Append(@, n)]
    ELSE InsertKey(b, parent, << >>)

\* Variant of NewNode that allocates nothing for the root.
NewNodeNotRoot(a, n) == IF Depth(n) = 0 THEN a ELSE a \cup {n}

\* Arena::new_node
NewNode(a, n) == a \cup {n}

\* Variant of AlreadyCounted without the hard-link check.
NeverCounted(n, seen) == FALSE

\* Lines 244-248: a hard link whose inode was already counted is skipped.
AlreadyCounted(n, seen) == Nlink(n) > 1 /\ Ino(n) \in seen
\* Variant of InsertInode that records no inode.
InsertNothing(n, seen) == seen

\* HashSet::insert as called on line 245: only for a link count above one.
InsertInode(n, seen) == IF Nlink(n) > 1 THEN seen \cup {Ino(n)} ELSE seen

\* ------------------------------------------------------------------- Init
ZeroWidths == [max_size_width |-> 0, max_ino_width |-> 0,
               max_nlink_width |-> 0, max_block_width |-> 0]

\* Lines 73-76: the state in which try_init calls traverse.
Start ==
    /\ pcMain = "try_from"
    /\ walker = [w \in Walkers |-> "unborn"]
    /\ unsent = 1..Len(fs)
    /\ chan = << >>
    /\ doneSent = 0
    /\ pcAsm = "unborn"
    /\ arena = {}
    /\ removed = {}
    /\ kids = [n \in Nodes |-> << >>]
    /\ size = [n \in Nodes |-> NoSize]
    /\ branches = << >>
    /\ root_id_id = 0
    /\ node_comparator = "none"
    /\ inodes = {}
    /\ stack = << >>
    /\ visited = << >>
    /\ ctx = << >>
    /\ result = "none"
    /\ channel = FALSE
    /\ column_properties = ZeroWidths
    /\ parent_first = TRUE

\* No prefix conversion is under way.
NoConversion ==
    /\ value = [hi |-> 0, lo |-> 0]
    /\ prefix_kind = "none"
    /\ prefix = "none"

Init ==
    /\ fs \in FileSystems(MaxEntries)
    /\ Start
    /\ NoConversion

\* An entry below the root whose path has no parent: Node::parent_path is
\* None for it.  The walker reports it last, after any walk of a directory.
Parentless == {[parent |-> NoPath, is_dir |-> dir, ino |-> IF dir THEN 0 ELSE 1] :
                  dir \in BOOLEAN}
ParentlessFileSystems ==
    {Append(f, e) : f \in {g \in FileSystems(MaxEntries - 1) :
                               Len(g) >= 1 /\ g[1].is_dir},
                    e \in Parentless}

\* The walks of Init, and the walks that report a parentless entry.
InitExpectedParent ==
    /\ fs \in FileSystems(MaxEntries) \cup ParentlessFileSystems
    /\ Start
    /\ NoConversion

\* ------------------------------------------------------- the main thread
\* Line 126, WalkParallel::try_from(ctx)?: the root canonicalizes and the
\* predicate builds, or traverse returns the error.
ConstructionErrors ==
    {"DirNotFound", "IgnoreError", "EmptyGlob", "InvalidRegularExpression",
     "PatternNotProvided"}

\* Variant of AfterTryFrom without the ? of line 126.
AfterTryFromUnchecked(r) == "spawn"

\* Line 126: the ? operator returns from traverse on an error.
AfterTryFrom(r) == IF r = "Ok" THEN "spawn" ELSE "returned"

TryFrom ==
    /\ pcMain = "try_from"
    /\ \E r \in {"Ok"} \cup ConstructionErrors :
         /\ pcMain' = AfterTryFrom(r)
         /\ result' = IF r = "Ok" THEN result ELSE r
    /\ UNCHANGED << fs, unitVars, channel, walkVars, chan, doneSent, asmVars >>

\* Lines 127-130: the channel is created and the assembler thread spawned.
SpawnAssembler ==
    /\ pcMain = "spawn"
    /\ pcMain' = "visit"
    /\ channel' = TRUE
    /\ pcAsm' = "recv"
    /\ UNCHANGED << fs, unitVars, result, walkVars, chan, doneSent, arena, removed, kids,
                    size, branches, root_id_id, node_comparator, inodes, stack,
                    visited, ctx, column_properties, parent_first >>

\* Lines 187-189: walker.visit starts the walker threads.
StartVisit ==
    /\ pcMain = "visit"
    /\ pcMain' = "visiting"
    /\ walker' = [w \in Walkers |-> "running"]
    /\ UNCHANGED << fs, unitVars, channel, result, unsent, chan, doneSent, asmVars >>

\* A walker thread visits an entry and sends Ongoing(node) on its clone of
\* the sender.  A value sent after the receiver was dropped is lost.
ReceiverAlive == pcAsm \in {"unborn", "recv", "fold", "assembled", "pruned"}

Visit(w, e) ==
    /\ walker[w] = "running"
    /\ e \in unsent
    /\ unsent' = unsent \ {e}
    /\ chan' = IF ReceiverAlive THEN Append(chan, e) ELSE chan
    /\ UNCHANGED << fs, unitVars, channel, mainVars, walker, doneSent, asmVars >>

\* A walker thread ends when no work is left.
WalkerExit(w) ==
    /\ walker[w] = "running"
    /\ unsent = {}
    /\ walker' = [walker EXCEPT ![w] = "exited"]
    /\ UNCHANGED << fs, unitVars, channel, mainVars, unsent, chan, doneSent, asmVars >>

\* Variant of AllWalkersExited: walker.visit does not wait for the threads.
NoWalkerJoin == TRUE

\* Line 189: walker.visit returns when every walker thread has ended.
AllWalkersExited == \A w \in Walkers : walker[w] = "exited"

VisitReturns ==
    /\ pcMain = "visiting"
    /\ AllWalkersExited
    /\ pcMain' = "send_done"
    /\ UNCHANGED << fs, unitVars, channel, result, walkVars, chan, doneSent, asmVars >>

\* Variant of SendDone that goes on to the join without sending Done.
SendDoneSkipped ==
    /\ pcMain = "send_done"
    /\ pcMain' = "join"
    /\ UNCHANGED << chan, doneSent >>
    /\ UNCHANGED << fs, unitVars, channel, result, walkVars, asmVars >>

\* Line 191, tx.send(TraversalState::Done).unwrap(): the send fails, and the
\* unwrap panics, when the receiver is gone.
SendDone ==
    /\ pcMain = "send_done"
    /\ IF ReceiverAlive
       THEN /\ chan' = Append(chan, Done)
            /\ doneSent' = doneSent + 1
            /\ pcMain' = "join"
       ELSE /\ pcMain' = "panicked"
            /\ UNCHANGED << chan, doneSent >>
    /\ UNCHANGED << fs, unitVars, channel, result, walkVars, asmVars >>

\* Line 193, res.join().unwrap(): waits for the assembler thread.
AsmEnded == pcAsm \in {"finished", "MissingRoot", "ExpectedParent", "panicked"}

Join ==
    /\ pcMain = "join"
    /\ AsmEnded
    /\ pcMain' = IF pcAsm = "panicked" THEN "panicked" ELSE "try_init"
    /\ UNCHANGED << fs, unitVars, channel, result, walkVars, chan, doneSent, asmVars >>

\* Lines 76-90: the error of traverse is returned; a stump is NoMatches.
TryInitReturn ==
    /\ pcMain = "try_init"
    /\ pcMain' = "returned"
    /\ result' = IF pcAsm # "finished" THEN pcAsm
                 ELSE IF IsStump(root_id_id, TreeOf(kids, removed)) THEN "NoMatches"
                 ELSE "Ok"
    /\ UNCHANGED << fs, unitVars, channel, walkVars, chan, doneSent, asmVars >>


\* -------------------------------------------------- the assembler thread
\* Lines 135-160, one turn of the receive loop on an Ongoing(node) value.
RecvOngoing ==
    /\ pcAsm = "recv"
    /\ chan # << >>
    /\ Head(chan) # Done
    /\ LET n  == Head(chan)
           b1 == EnsureOwnList(branches, n)
       IN  /\ chan' = Tail(chan)
           /\ IF IsRootEntry(n)
              THEN /\ arena' = NewNode(arena, n)
                   /\ size' = [size EXCEPT ![n] = InitialSize(n)]
                   /\ root_id_id' = n
                   /\ branches' = b1
                   /\ pcAsm' = pcAsm
              ELSE IF ParentPath(n) = NoPath
              THEN /\ pcAsm' = "ExpectedParent"
                   /\ branches' = b1
                   /\ UNCHANGED << arena, size, root_id_id >>
              ELSE /\ arena' = NewNode(arena, n)
                   /\ size' = [size EXCEPT ![n] = InitialSize(n)]
                   /\ branches' = PushToParent(b1, ParentPath(n), n)
                   /\ UNCHANGED << root_id_id, pcAsm >>
           /\ parent_first' = (parent_first /\
                                  (Depth(n) = 0 \/ ParentPath(n) \in arena))
    /\ UNCHANGED << fs, unitVars, channel, mainVars, walkVars, doneSent, removed, kids,
                    node_comparator, inodes, stack, visited, ctx,
                    column_properties >>

\* Lines 135 and 162-164: Done ends the loop; without a root the thread
\* returns MissingRoot, else it builds the comparator and the inode set.
RecvDone ==
    /\ pcAsm = "recv"
    /\ chan # << >>
    /\ Head(chan) = Done
    /\ chan' = Tail(chan)
    /\ IF root_id_id = 0
       THEN /\ pcAsm' = "MissingRoot"
            /\ UNCHANGED << node_comparator, ctx >>
       ELSE /\ pcAsm' = "fold"
            /\ \E s \in Sorts : node_comparator' = s
            /\ \E long \in BOOLEAN : ctx' = [f \in {"long"} |-> long]
    /\ UNCHANGED << fs, unitVars, channel, mainVars, walkVars, doneSent, arena, removed, kids, size,
                    branches, root_id_id, inodes, stack, visited,
                    column_properties, parent_first >>

\* Variant of UpdateColumnProperties that stores the width of the last node.
UpdateLastWidth(cp, n, sz, long) ==
    LET has == sz[n] # NoSize
    IN  [max_size_width  |-> IF has THEN SizeColumns(sz[n]) ELSE cp.max_size_width,
         max_ino_width   |-> IF long THEN NumIntegral(Ino(n)) ELSE cp.max_ino_width,
         max_nlink_width |-> IF long THEN NumIntegral(Nlink(n))
                             ELSE cp.max_nlink_width,
         max_block_width |-> IF long THEN NumIntegral(Blocks(n))
                             ELSE cp.max_block_width]

\* Lines 340-374: every width is raised to the width of the node's field;
\* the inode, link and block widths only under ctx.long.
UpdateColumnProperties(cp, n, sz, long) ==
    LET Max(a, b) == IF a > b THEN a ELSE b
        has == sz[n] # NoSize
    IN  [max_size_width  |-> IF has THEN Max(SizeColumns(sz[n]), cp.max_size_width)
                             ELSE cp.max_size_width,
         max_ino_width   |-> IF long THEN Max(NumIntegral(Ino(n)), cp.max_ino_width)
                             ELSE cp.max_ino_width,
         max_nlink_width |-> IF long
                             THEN Max(NumIntegral(Nlink(n)), cp.max_nlink_width)
                             ELSE cp.max_nlink_width,
         max_block_width |-> IF long
                             THEN Max(NumIntegral(Blocks(n)), cp.max_block_width)
                             ELSE cp.max_block_width]

Top == stack[Len(stack)]
TopChild == Top.children[Top.i]
SetTop(f) == [stack EXCEPT ![Len(stack)] = f]

\* Lines 166 and 223-232 with 209-213: assemble_tree is called for the root,
\* or for the directory child the loop is at, and takes the branch list of
\* its node; the unwrap panics when there is none.
AssembleEnter ==
    /\ pcAsm = "fold"
    /\ \/ stack = << >>
       \/ /\ stack # << >>
          /\ Top.i <= Len(Top.children)
          /\ IsDir(TopChild)
          /\ ~Top.called
    /\ LET n == IF stack = << >> THEN root_id_id ELSE TopChild
           caller == IF stack = << >> THEN << >>
                     ELSE SetTop([Top EXCEPT !.called = TRUE])
       IN  IF Path(n) \in DOMAIN branches
           THEN /\ stack' = Append(caller,
                                   [node |-> n, children |-> branches[Path(n)],
                                    i |-> 1, dir_size |-> 0, called |-> FALSE])
                /\ branches' = RemoveKey(branches, Path(n))
                /\ pcAsm' = pcAsm
           ELSE /\ pcAsm' = "panicked"
                /\ UNCHANGED << stack, branches >>
    /\ UNCHANGED << fs, unitVars, channel, mainVars, walkVars, chan, doneSent, arena, removed, kids,
                    size, root_id_id, node_comparator, inodes, visited, ctx,
                    column_properties, parent_first >>

\* Lines 235-252: the child (folded already when it is a directory) adds its
\* size to the running total unless it is a hard link counted before.
AssembleVisit ==
    /\ pcAsm = "fold"
    /\ stack # << >>
    /\ Top.i <= Len(Top.children)
    /\ ~IsDir(TopChild) \/ Top.called
    /\ LET c    == TopChild
           skip == AlreadyCounted(c, inodes)
           add  == IF skip \/ size[c] = NoSize THEN 0 ELSE size[c]
       IN  /\ inodes' = InsertInode(c, inodes)
           /\ visited' = Append(visited, c)
           /\ stack' = SetTop([Top EXCEPT !.i = @ + 1, !.called = FALSE,
                                          !.dir_size = @ + add])
           /\ column_properties' =
                  UpdateColumnProperties(column_properties, c, size, ctx.long)
    /\ UNCHANGED << fs, unitVars, channel, mainVars, walkVars, chan, doneSent, pcAsm, arena, removed,
                    kids, size, branches, root_id_id, node_comparator, ctx,
                    parent_first >>

\* Lines 255-261: a nonzero total becomes the size of the directory.
DirSize(old, total) == IF total > 0 THEN total ELSE old

\* Lines 255-280: the directory gets its size, the children are sorted and
\* appended to it, and assemble_tree returns.
AssembleReturn ==
    /\ pcAsm = "fold"
    /\ stack # << >>
    /\ Top.i > Len(Top.children)
    /\ LET d      == Top.node
           sz     == [size EXCEPT ![d] = DirSize(@, Top.dir_size)]
           sorted == SortBy(Top.children, node_comparator, sz)
       IN  /\ size' = sz
           /\ column_properties' =
                  UpdateColumnProperties(column_properties, d, sz, ctx.long)
           /\ kids' = AppendAll(d, sorted, kids)
    /\ stack' = SubSeq(stack, 1, Len(stack) - 1)
    /\ pcAsm' = IF Len(stack) = 1 THEN "assembled" ELSE pcAsm
    /\ UNCHANGED << fs, unitVars, channel, mainVars, walkVars, chan, doneSent, arena, removed,
                    branches, root_id_id, node_comparator, inodes, visited, ctx,
                    parent_first >>

\* Lines 176-178: ctx.prune and ctx.file_type are read, and the empty
\* directories pruned when the condition holds.
PruneCondition(prune, type_is_dir) == prune \/ ~type_is_dir

Prune ==
    /\ pcAsm = "assembled"
    /\ \E prune \in BOOLEAN, type_is_dir \in BOOLEAN :
         /\ ctx' = [f \in DOMAIN ctx \cup {"prune", "file_type_dir"} |->
                       IF f = "prune" THEN prune
                       ELSE IF f = "file_type_dir" THEN type_is_dir
                       ELSE ctx[f]]
         /\ LET T == IF PruneCondition(prune, type_is_dir)
                     THEN PruneDirectories(root_id_id, TreeOf(kids, removed))
                     ELSE TreeOf(kids, removed)
            IN  kids' = T.kids /\ removed' = T.removed
    /\ pcAsm' = "pruned"
    /\ UNCHANGED << fs, unitVars, channel, mainVars, walkVars, chan, doneSent, arena, size, branches,
                    root_id_id, node_comparator, inodes, stack, visited,
                    column_properties, parent_first >>

\* Lines 180-184: ctx.dirs_only is read, the non-directories detached when
\* it is set, and the thread returns the arena and the root.
Filter ==
    /\ pcAsm = "pruned"
    /\ \E dirs_only \in BOOLEAN :
         /\ ctx' = [f \in DOMAIN ctx \cup {"dirs_only"} |->
                       IF f = "dirs_only" THEN dirs_only ELSE ctx[f]]
         /\ LET T == IF dirs_only
                     THEN FilterDirectories(root_id_id, TreeOf(kids, removed))
                     ELSE TreeOf(kids, removed)
            IN  kids' = T.kids /\ removed' = T.removed
    /\ pcAsm' = "finished"
    /\ UNCHANGED << fs, unitVars, channel, mainVars, walkVars, chan, doneSent, arena, size, branches,
                    root_id_id, node_comparator, inodes, stack, visited,
                    column_properties, parent_first >>

\* ------------------------------------------------------ the specification
Next ==
    \/ TryFrom
    \/ SpawnAssembler
    \/ StartVisit
    \/ \E w \in Walkers, e \in Nodes : Visit(w, e)
    \/ \E w \in Walkers : WalkerExit(w)
    \/ VisitReturns
    \/ SendDone
    \/ Join
    \/ TryInitReturn
    \/ RecvOngoing
    \/ RecvDone
    \/ AssembleEnter
    \/ AssembleVisit
    \/ AssembleReturn
    \/ Prune
    \/ Filter

Spec == Init /\ [][Next]_vars


\* ------------------------------------------------------ the unit prefixes
\* A u64, and an f64 that holds an integer, as two limbs: hi * Limb + lo.
Limb == 1048576
Wide(h, l) == [hi |-> h, lo |-> l]
WideTimes(a, k) == LET x == a.lo * k IN Wide(a.hi * k + x \div Limb, x % Limb)
WideLt(a, b) == a.hi < b.hi \/ (a.hi = b.hi /\ a.lo < b.lo)
WideLe(a, b) == ~WideLt(b, a)
WideSucc(a) == IF a.lo + 1 = Limb THEN Wide(a.hi + 1, 0) ELSE Wide(a.hi, a.lo + 1)
WidePred(a) == IF a.lo = 0 THEN Wide(a.hi - 1, Limb - 1) ELSE Wide(a.hi, a.lo - 1)
\* u64::pow, three factors at a time while three are left.
RECURSIVE WidePow(_, _)
WidePow(b, e) ==
    IF e = 0 THEN Wide(0, 1)
    ELSE IF e >= 3 THEN WideTimes(WidePow(b, e - 3), b * b * b)
    ELSE WideTimes(WidePow(b, e - 1), b)

SiPrefixes  == {"Base", "Kilo", "Mega", "Giga", "Tera"}
BinPrefixes == {"Base", "Kibi", "Mebi", "Gibi", "Tebi"}

\* Lines 43-51, SiPrefix::base_value.
SiBaseValue(p) ==
    CASE p = "Base" -> Wide(0, 1)
      [] p = "Kilo" -> WidePow(10, 3)
      [] p = "Mega" -> WidePow(10, 6)
      [] p = "Giga" -> WidePow(10, 9)
      [] p = "Tera" -> WidePow(10, 12)

\* Lines 55-63, BinPrefix::base_value.
BinBaseValue(p) ==
    CASE p = "Base" -> Wide(0, 1)
      [] p = "Kibi" -> WidePow(2, 10)
      [] p = "Mebi" -> WidePow(2, 20)
      [] p = "Gibi" -> WidePow(2, 30)
      [] p = "Tebi" -> WidePow(2, 40)

\* The magnitude of an f64 value.
Magnitude(v) == Wide(v.hi, v.lo)

\* f64::log2 and f64::log10: minus infinity at zero, NaN below zero, and for
\* a positive value the logarithm, kept as the value it is the logarithm of.
Log(v) ==
    IF v.hi = 0 /\ v.lo = 0 THEN "neg_infinity"
    ELSE IF v.neg THEN "nan"
    ELSE "finite"

\* Variant of LogLt with <= in place of <.
LogLe(v, b, k) ==
    CASE Log(v) = "nan" -> FALSE
      [] Log(v) = "neg_infinity" -> TRUE
      [] Log(v) = "finite" -> WideLe(Magnitude(v), WidePow(b, k))

\* log < k of lines 70-76 and 89-95, for the logarithm of v in base b: a
\* comparison with NaN is false, minus infinity is below every k, and a
\* finite logarithm is below k exactly when v is below b^k.
LogLt(v, b, k) ==
    CASE Log(v) = "nan" -> FALSE
      [] Log(v) = "neg_infinity" -> TRUE
      [] Log(v) = "finite" -> WideLt(Magnitude(v), WidePow(b, k))

\* Lines 67-83, From<f64> for BinPrefix.
BinPrefixFrom(v) ==
    IF LogLt(v, 2, 10) THEN "Base"
    ELSE IF LogLt(v, 2, 20) THEN "Kibi"
    ELSE IF LogLt(v, 2, 30) THEN "Mebi"
    ELSE IF LogLt(v, 2, 40) THEN "Gibi"
    ELSE "Tebi"

\* Lines 86-102, From<f64> for SiPrefix.
SiPrefixFrom(v) ==
    IF LogLt(v, 10, 3) THEN "Base"
    ELSE IF LogLt(v, 10, 6) THEN "Kilo"
    ELSE IF LogLt(v, 10, 9) THEN "Mega"
    ELSE IF LogLt(v, 10, 12) THEN "Giga"
    ELSE "Tera"

\* The values converted: zero, one, two, and around every base value, each
\* also with the sign reversed.
Factors == {2, 500}
BaseValues == {SiBaseValue(p) : p \in SiPrefixes \ {"Base"}} \cup
              {BinBaseValue(p) : p \in BinPrefixes \ {"Base"}}
Magnitudes ==
    {Wide(0, 0), Wide(0, 1), Wide(0, 2)} \cup
    UNION {{WidePred(t), t, WideSucc(t)} \cup {WideTimes(t, k) : k \in Factors} :
              t \in BaseValues}
Values == {[neg |-> s, hi |-> m.hi, lo |-> m.lo] :
              s \in BOOLEAN, m \in Magnitudes} \
          {[neg |-> TRUE, hi |-> 0, lo |-> 0]}

InitUnits ==
    /\ fs = << RootEntry >>
    /\ Start
    /\ value \in Values
    /\ prefix_kind = "none"
    /\ prefix = "none"

\* BinPrefix::from(value)
FromBin ==
    /\ prefix_kind = "none"
    /\ prefix_kind' = "Bin"
    /\ prefix' = BinPrefixFrom(value)
    /\ UNCHANGED << value, fs, mainVars, walkVars, chan, doneSent, channel,
                    asmVars >>

\* SiPrefix::from(value)
FromSi ==
    /\ prefix_kind = "none"
    /\ prefix_kind' = "Si"
    /\ prefix' = SiPrefixFrom(value)
    /\ UNCHANGED << value, fs, mainVars, walkVars, chan, doneSent, channel,
                    asmVars >>

NextUnits == FromBin \/ FromSi

SpecUnits == InitUnits /\ [][NextUnits]_vars

\* The steps of each thread.  A thread that can take a step is scheduled
\* eventually; a walker thread eventually visits what is left and ends.
MainStep ==
    \/ TryFrom \/ SpawnAssembler \/ StartVisit \/ VisitReturns \/ SendDone
    \/ Join \/ TryInitReturn
AssemblerStep ==
    \/ RecvOngoing \/ RecvDone \/ AssembleEnter \/ AssembleVisit
    \/ AssembleReturn \/ Prune \/ Filter
WalkerStep(w) == (\E e \in Nodes : Visit(w, e)) \/ WalkerExit(w)

\* The walks on which termination is checked.
MaxLiveEntries == 3
InitLive ==
    /\ fs \in FileSystems(MaxLiveEntries)
    /\ Start
    /\ NoConversion

LiveSpec ==
    /\ InitLive
    /\ [][Next]_vars
    /\ WF_vars(MainStep)
    /\ WF_vars(AssemblerStep)
    /\ \A w \in Walkers : WF_vars(WalkerStep(w))

\* The same program on the walks that may hold a parentless entry.
SpecExpectedParent == InitExpectedParent /\ [][Next]_vars


\* ================================================================ claims
Assembled == pcAsm \in {"assembled", "pruned", "finished"}
InTree(root, k) == Range(Descendants(root, k))
Attached == InTree(root_id_id, kids)

RECURSIVE SumBytes(_)
SumBytes(S) ==
    IF S = {} THEN 0
    ELSE LET n == CHOOSE x \in S : TRUE
         IN  Bytes(fs[n].ino) + SumBytes(S \ {n})

\* Position of n in the order in which the fold went through the nodes.
VisitIndex(n) == CHOOSE j \in 1..Len(visited) : visited[j] = n

\* n is a file whose size counts: it is not a hard link, or it is the first
\* link to its inode that the fold went through.
FirstLink(n) ==
    \A m \in Range(visited) :
        (~IsDir(m) /\ fs[m].ino = fs[n].ino) => VisitIndex(n) <= VisitIndex(m)

CountedBelow(d) ==
    {n \in InTree(d, kids) : ~IsDir(n) /\ (Nlink(n) > 1 => FirstLink(n))}

\* C1: after the fold, the size of every directory of the tree is the sum of
\* the sizes of the files below it, a hard-linked inode counting only for
\* the first of its links the fold went through; a directory whose sum is
\* zero has no size.
C1_DirSizeIsSumOfDistinctFiles ==
    pcAsm = "assembled" =>
        \A d \in Attached :
            IsDir(d) =>
                LET total == SumBytes(CountedBelow(d))
                IN  size[d] = IF total = 0 THEN NoSize ELSE total

\* C1 witness: two hard links in the root, counted once.
C1_Witness ==
    /\ pcAsm = "assembled"
    /\ Len(kids[root_id_id]) = 2
    /\ \A n \in Range(kids[root_id_id]) : ~IsDir(n) /\ Nlink(n) = 2
    /\ size[root_id_id] = Bytes(fs[kids[root_id_id][1]].ino)

\* C2: every consumed entry but the root is on the branch list of its parent
\* path while the loop runs, and is the child of its parent after the fold,
\* whatever the order of arrival.
C2_EveryEntryAttachedToParent ==
    /\ pcAsm = "recv" =>
          \A n \in {m \in arena : Depth(m) > 0} :
              /\ ParentPath(n) \in DOMAIN branches
              /\ n \in Range(branches[ParentPath(n)])
    /\ pcAsm = "assembled" =>
          \A n \in arena \ {root_id_id} : ParentOf(n, kids) = ParentPath(n)

\* C3: at most one Done is sent; when it is sent every Ongoing value has been
\* sent and every walker thread has ended, so that it is the last message of
\* the channel; once traverse waits for the assembler, exactly one was sent.
C3_OneDoneAfterAllOngoing ==
    /\ doneSent <= 1
    /\ doneSent = 1 => unsent = {} /\ \A w \in Walkers : walker[w] = "exited"
    /\ \A j \in 1..Len(chan) : chan[j] = Done => j = Len(chan) /\ doneSent = 1
    /\ pcMain \in {"join", "try_init"} => doneSent = 1
    /\ pcMain \in {"try_from", "spawn", "visit", "visiting", "send_done"}
          => doneSent = 0

\* C3 witness: Done is in the channel behind an Ongoing value.
C3_Witness ==
    /\ pcMain = "join"
    /\ Len(chan) >= 2
    /\ chan[Len(chan)] = Done

\* C4: when the assembler has left the receive loop to fold, nothing is in
\* flight, every entry was sent and consumed, and the arena has one node for
\* each of them.
C4_NothingInFlightWhenFolding ==
    pcAsm \in {"fold", "assembled", "pruned", "finished"} =>
        /\ chan = << >>
        /\ unsent = {}
        /\ arena = Entries
        /\ Cardinality(arena) = Len(fs)

\* C4 witness: the fold has started on a walk of the largest size.
C4_Witness ==
    /\ pcAsm = "fold"
    /\ stack = << >>
    /\ Len(fs) = MaxEntries


HasFileBelow(d, k) == \E n \in InTree(d, k) : ~IsDir(n)

C5_PruneRan ==
    /\ pcAsm = "assembled"
    /\ pcAsm' = "pruned"
    /\ ctx'.prune \/ ~ctx'.file_type_dir

\* C5: a run of prune_directories leaves no childless directory below the
\* root, removes every directory that holds no file (also the ones emptied
\* by the removal of their subdirectories), and keeps the root, every file
\* and every directory with a file below it where they were.
C5_PruneRemovesExactlyEmptyDirs ==
    [][C5_PruneRan =>
        LET root   == root_id_id
            before == InTree(root, kids)
            after  == InTree(root, kids')
        IN  /\ \A d \in after \ {root} : IsDir(d) => kids'[d] # << >>
            /\ root_id_id' = root /\ root \notin removed'
            /\ \A n \in before :
                  (~IsDir(n) \/ HasFileBelow(n, kids)) =>
                      /\ n \in after
                      /\ n \notin removed'
                      /\ ParentOf(n, kids') = ParentOf(n, kids)
            /\ \A d \in before \ {root} :
                  ~HasFileBelow(d, kids) => d \in removed' /\ d \notin after
    ]_vars

\* C5 witness: a directory was removed after its only, empty, subdirectory,
\* and a file is still in the tree.
C5_Witness ==
    /\ pcAsm = "pruned"
    /\ ctx.prune
    /\ \E d \in removed, e \in removed : ParentPath(e) = d /\ e \in Range(visited)
    /\ \E f \in Attached : ~IsDir(f)

\* C6: pruning the pruned tree again changes nothing: same edges in the same
\* sibling order, same removed nodes.
C6_PruneIdempotent ==
    (pcAsm = "pruned" /\ (ctx.prune \/ ~ctx.file_type_dir)) =>
        PruneDirectories(root_id_id, TreeOf(kids, removed)) = TreeOf(kids, removed)

\* C6 witness: the first pruning removed something and left something.
C6_Witness ==
    /\ pcAsm = "pruned"
    /\ ctx.prune \/ ~ctx.file_type_dir
    /\ removed # {}
    /\ kids[root_id_id] # << >>

C7_FilterRan ==
    /\ pcAsm = "pruned"
    /\ pcAsm' = "finished"
    /\ ctx'.dirs_only

\* C7: a run of filter_directories leaves only directories reachable from
\* the root, keeps the root the root, and keeps every directory that was
\* reachable under the same parent.
C7_FilterKeepsOnlyDirectories ==
    [][C7_FilterRan =>
        LET root   == root_id_id
            before == InTree(root, kids)
            after  == InTree(root, kids')
        IN  /\ \A n \in after : IsDir(n)
            /\ root_id_id' = root
            /\ root \notin removed'
            /\ ParentOf(root, kids') = 0
            /\ \A d \in before :
                  IsDir(d) => d \in after /\ ParentOf(d, kids') = ParentOf(d, kids)
    ]_vars

\* C7 witness: a file that the fold attached is detached, and a directory
\* is left below the root.
C7_Witness ==
    /\ pcAsm = "finished"
    /\ ctx.dirs_only
    /\ \E f \in Range(visited) \ removed : ~IsDir(f) /\ ParentOf(f, kids) = 0
    /\ \E d \in Attached : d # root_id_id

\* C8: the children of every directory are in an order in which no child is
\* ranked after its right neighbour by the comparator, sizes being the
\* final, aggregated ones; when a directory sorts its children every child
\* directory has been folded.
C8_SiblingsOrderedByComparator ==
    /\ \A d \in Nodes :
          \A j \in 1..(Len(kids[d]) - 1) :
              Compare(node_comparator, kids[d][j], kids[d][j + 1], size) # 1
    /\ (pcAsm = "fold" /\ stack # << >> /\ Top.i > Len(Top.children)) =>
          \A c \in Range(Top.children) :
              IsDir(c) => Path(c) \notin DOMAIN branches /\ c \in Range(visited)

\* C8 witness: sorted by size, a directory that arrived first stands after a
\* file that is smaller than the directory's aggregated size.
C8_Witness ==
    /\ pcAsm = "assembled"
    /\ node_comparator = "size"
    /\ Len(kids[root_id_id]) = 2
    /\ LET f == kids[root_id_id][1]
           d == kids[root_id_id][2]
       IN  /\ ~IsDir(f) /\ IsDir(d)
           /\ size[d] > size[f]
           /\ VisitIndex(d) < VisitIndex(f)

\* C9: when assemble_tree has returned for the root, the branch map is empty.
C9_BranchMapEmptyAfterFold ==
    Assembled => DOMAIN branches = {}

\* C10: try_init returns NoMatches exactly when the assembly succeeded and
\* the root is left without a child; a tree it returns has a node besides
\* the root; a walk of the root alone gives NoMatches.
C10_NoMatchesIffStump ==
    pcMain = "returned" =>
        /\ (result = "NoMatches") <=> (pcAsm = "finished" /\ kids[root_id_id] = << >>)
        /\ (result = "Ok") =>
              /\ pcAsm = "finished"
              /\ \E n \in arena \ (removed \cup {root_id_id}) :
                    ParentOf(n, kids) = root_id_id
        /\ (Len(fs) = 1 /\ IsDir(1) /\ pcAsm # "unborn") => result = "NoMatches"

\* C10 witness: NoMatches for a walk that reported more than the root.
C10_Witness ==
    /\ pcMain = "returned"
    /\ result = "NoMatches"
    /\ Len(fs) > 1


DoneReceived == doneSent = 1 /\ Done \notin Range(chan) /\ pcAsm # "ExpectedParent"

\* C11 as stated: MissingRoot exactly when Done was received and no depth-0
\* entry was ever consumed.
C11_MissingRootIffNoDepthZeroEntry ==
    (pcAsm = "MissingRoot") <=>
        (DoneReceived /\ ~\E n \in arena : Depth(n) = 0)

\* C11: the assembler fails with MissingRoot exactly when Done was received
\* and no depth-0 directory was ever consumed; a consumed depth-0 directory
\* is the root, the child of no node, and the root of the tree returned.
C11_MissingRootIffNoDepthZeroDirectory ==
    /\ (pcAsm = "MissingRoot") <=>
          (DoneReceived /\ ~\E n \in arena : IsDir(n) /\ Depth(n) = 0)
    /\ \A n \in arena :
          (IsDir(n) /\ Depth(n) = 0) => root_id_id = n /\ ParentOf(n, kids) = 0
    /\ (pcMain = "returned" /\ pcAsm # "unborn") =>
          ((result = "MissingRoot") <=> (pcAsm = "MissingRoot"))
    /\ result \in {"Ok", "NoMatches"} => root_id_id \in arena \ removed

\* C11 witness: MissingRoot is returned although a depth-0 entry, a file, was
\* consumed.
C11_Witness ==
    /\ pcMain = "returned"
    /\ result = "MissingRoot"
    /\ \E n \in arena : Depth(n) = 0


\* C12: when the construction of the walker fails, traverse returns that
\* error before the channel exists, before the assembler or any walker thread
\* is spawned, and before any TraversalState is sent.
C12_ConstructionErrorBeforeAnyThread ==
    result \in ConstructionErrors =>
        /\ pcMain = "returned"
        /\ ~channel
        /\ pcAsm = "unborn"
        /\ \A w \in Walkers : walker[w] = "unborn"
        /\ unsent = Entries
        /\ chan = << >>
        /\ doneSent = 0
        /\ arena = {}

\* C12 witness: a regular expression that does not compile ended traverse.
C12_Witness ==
    /\ pcMain = "returned"
    /\ result = "InvalidRegularExpression"
    /\ Len(fs) > 1


\* C13: when the assembler fails with ExpectedParent, traverse does not
\* panic on the later send of Done: it returns the ExpectedParent error and
\* no arena, in every interleaving.
C13_ExpectedParentIsReturned ==
    pcAsm = "ExpectedParent" =>
        /\ pcMain # "panicked"
        /\ pcMain = "returned" => result = "ExpectedParent"


\* C14: the passes run only when requested.  With ctx.prune unset and no
\* restriction to directories (ctx.file_type is not Dir, ctx.dirs_only unset)
\* traverse removes no node, so every empty directory is still in the tree;
\* with ctx.dirs_only unset no non-directory node is detached.
C14_PassesRunOnlyWhenRequested ==
    pcAsm = "finished" =>
        /\ (~ctx.prune /\ ~ctx.file_type_dir /\ ~ctx.dirs_only) =>
              /\ removed = {}
              /\ \A n \in Range(visited) : IsDir(n) => n \in Attached
        /\ ~ctx.dirs_only =>
              \A n \in Range(visited) : ~IsDir(n) => ParentOf(n, kids) # 0


BaseValueOf(p) == IF prefix_kind = "Bin" THEN BinBaseValue(p) ELSE SiBaseValue(p)
PrefixesOfKind == IF prefix_kind = "Bin" THEN BinPrefixes ELSE SiPrefixes
Converted(kind, h, l) ==
    /\ prefix_kind = kind
    /\ value = [neg |-> FALSE, hi |-> h, lo |-> l]

\* C15: for every byte count of at least 1 the conversion returns the
\* largest prefix whose base_value does not exceed the count; 1024 is Kibi,
\* 2^20 is Mebi, 1000 is Kilo and 999 is Base.
C15_LargestPrefixNotAboveValue ==
    /\ (prefix_kind # "none" /\ ~value.neg /\ WideLe(Wide(0, 1), Magnitude(value))) =>
          /\ prefix \in PrefixesOfKind
          /\ WideLe(BaseValueOf(prefix), Magnitude(value))
          /\ \A q \in PrefixesOfKind :
                WideLe(BaseValueOf(q), Magnitude(value)) =>
                    WideLe(BaseValueOf(q), BaseValueOf(prefix))
    /\ Converted("Bin", 0, 1024) => prefix = "Kibi"
    /\ Converted("Bin", 1, 0) => prefix = "Mebi"
    /\ Converted("Si", 0, 1000) => prefix = "Kilo"
    /\ Converted("Si", 0, 999) => prefix = "Base"

\* C15 witness: 1024 bytes were converted to a binary prefix, Kibi.
C15_Witness == Converted("Bin", 0, 1024) /\ prefix = "Kibi"

\* C16: for every zero or negative input both conversions return Base.
C16_NonPositiveIsBase ==
    (prefix_kind # "none" /\ (value.neg \/ Magnitude(value) = Wide(0, 0))) =>
        prefix = "Base"


WidthFields == {"max_size_width", "max_ino_width", "max_nlink_width",
                "max_block_width"}

WidthsCover(n) ==
    /\ size[n] # NoSize => column_properties.max_size_width >= SizeColumns(size[n])
    /\ ctx.long =>
          /\ column_properties.max_ino_width >= NumIntegral(Ino(n))
          /\ column_properties.max_nlink_width >= NumIntegral(Nlink(n))
          /\ column_properties.max_block_width >= NumIntegral(Blocks(n))

\* C17: no width of ColumnProperties ever decreases; once the fold has
\* ended max_size_width covers the size of every node attached to the tree,
\* the root included, and under ctx.long the inode, link and block widths
\* cover every attached node too; without ctx.long those three are unchanged.
C17_WidthsGrowAndCoverTheTree ==
    /\ [][\A f \in WidthFields : column_properties'[f] >= column_properties[f]]_vars
    /\ [](Assembled =>
            /\ \A n \in Attached : WidthsCover(n)
            /\ ~ctx.long =>
                  \A f \in WidthFields \ {"max_size_width"} :
                      column_properties[f] = ZeroWidths[f])

\* C17 witness: a long listing whose root total is wider than a file below it.
C17_Witness ==
    /\ pcAsm = "assembled"
    /\ ctx.long
    /\ column_properties.max_size_width = 2
    /\ column_properties.max_block_width = 2
    /\ \E n \in Attached : ~IsDir(n) /\ SizeColumns(size[n]) = 1
    /\ \E d \in Attached \ {root_id_id} : IsDir(d) /\ size[d] # NoSize


\* C18: every run of traverse ends, with a tree or with an error; the
\* assembler, once it waits on recv, receives Done and ends, and the join of
\* the main thread returns.
C18_TraverseTerminates ==
    /\ <>(/\ pcMain = "returned"
          /\ result \in {"Ok", "NoMatches", "MissingRoot"} \cup ConstructionErrors)
    /\ (pcAsm = "recv") ~> (DoneReceived /\ AsmEnded)
    /\ (pcMain = "join") ~> (pcMain = "returned")

\* C18 witness: a walk of several entries over which traverse returned a tree.
C18_Witness ==
    /\ pcMain = "returned"
    /\ result = "Ok"
    /\ AsmEnded
    /\ \A w \in Walkers : walker[w] = "exited"
    /\ Cardinality(arena) >= 3


AboutToEnter ==
    /\ pcAsm = "fold"
    /\ stack # << >>
    /\ Top.i <= Len(Top.children)
    /\ IsDir(TopChild)
    /\ ~Top.called

\* C19: whenever assemble_tree is entered for a node, for the root or for a
\* directory child, the branch map holds an entry for the path of that node,
\* so branches.remove(path).unwrap() never panics, in every arrival order.
C19_BranchListPresentOnEntry ==
    /\ pcAsm # "panicked"
    /\ (pcAsm = "fold" /\ stack = << >>) => Path(root_id_id) \in DOMAIN branches
    /\ AboutToEnter => Path(TopChild) \in DOMAIN branches

\* C19 witness: assemble_tree is about to be entered for a directory below
\* the root, after an arrival order in which a child preceded its parent.
C19_Witness ==
    /\ AboutToEnter
    /\ ~parent_first
    /\ Path(TopChild) \in DOMAIN branches


RECURSIVE SumOfInodes(_)
SumOfInodes(S) ==
    IF S = {} THEN 0
    ELSE LET i == CHOOSE x \in S : TRUE
         IN  Bytes(i) + SumOfInodes(S \ {i})

\* The bytes of the walk, every inode taken once: a function of the entry
\* set alone.
DistinctBytes == SumOfInodes({fs[e].ino : e \in {x \in Entries : ~IsDir(x)}})

\* C20: an inode with several links adds to the root's size at most once,
\* wherever its links live; and in every arrival order that reports each
\* directory before its children the root's size is the same, the bytes of
\* the distinct inodes of the entry set.
C20_RootSizeIndependentOfOrder ==
    Assembled =>
        /\ size[root_id_id] <= DistinctBytes
        /\ parent_first =>
              size[root_id_id] = (IF DistinctBytes = 0 THEN NoSize ELSE DistinctBytes)

\* C20 witness: two links of one inode in different directories, both in
\* the tree, after the fold.
C20_Witness ==
    /\ pcAsm = "assembled"
    /\ parent_first
    /\ \E a, b \in Attached :
          /\ a # b /\ ~IsDir(a) /\ ~IsDir(b)
          /\ fs[a].ino = fs[b].ino
          /\ ParentPath(a) # ParentPath(b)
          /\ size[root_id_id] = Bytes(fs[a].ino)

====
